---- MODULE Spec2Model ----
(***************************************************************************)
(* Solver-orchestration engine of the Airfoil CFD backend (src/main.py):   *)
(* the upload_airfoil request handler, the concurrency gate                *)
(* (xfoil_semaphore), the three-step execution strategy (run_xfoil_sync)   *)
(* and one solver attempt (_run_xfoil_mode).                               *)
(*                                                                         *)
(* Every request runs the same handler.  The outcome of each attempt and   *)
(* the response are program outputs that the program itself does not       *)
(* keep; the model records them for one probe request (attemptLog,         *)
(* obsResp) so that properties of "a request" can be stated over states.   *)
(***************************************************************************)
EXTENDS Integers, Sequences, FiniteSets, TLC

(* ----------------------------- bounds ---------------------------------- *)
\* number of requests that arrive (each client request is handled once)
NumRequests == 4
\* largest number of valid rows in a cp_output.txt the solver may write
MaxRows == 1
MaxOccurrences == 3
MaxLines == 2
MaxEntries == 2
MaxCount == 3

Requests == 1..NumRequests

(* ------------------------ program constants ---------------------------- *)
MAX_FILE_SIZE == 1 * 1024 * 1024
MAX_POINTS == 500
MIN_POINTS == 10
MIN_REYNOLDS == 10000
MAX_REYNOLDS == 10000000
MIN_ALPHA == -10
MAX_ALPHA == 20
\* asyncio.Semaphore(3)
GateCapacity == 3
\* @limiter.limit("5/minute") on upload_airfoil
RATE_LIMIT == 5
HEALTH_LIMIT == 20

VARIABLES
    pc,          \* pc[r]: position of request r's handler
    attempt,     \* attempt[r]: strategy step of run_xfoil_sync (0 = not in it)
    sem,         \* xfoil_semaphore._value: free permits
    procs,       \* live solver processes, as <<request, strategy step>>
    dirs,        \* the run ids whose run_<id> working directory exists
    probe,       \* the request whose attempts and response are recorded (0: none)
    attemptLog,  \* probe request: one [mode, outcome, msg] entry per attempt started
    obsResp,     \* probe request: the response it was answered with
    hits,        \* rate limiter: hits[c] requests of client c counted in its window
    payload,     \* probe request: its content when fixed in advance
    runId,       \* runId[r]: the str(uuid.uuid4())[:8] that request r draws
    cache,       \* dashboard: the entries of run_xfoil_analysis's st.cache_data
    call,        \* dashboard: call[s], session s's call of run_xfoil_analysis
    health,      \* /health: is the binary there, the monitor's hits, its last answer
    arg,         \* a pure function studied on its own: its argument
    result       \* and the results of applying it, in order

vars == <<pc, attempt, sem, procs, dirs, probe, attemptLog, obsResp,
          hits, payload, runId, cache, call, health, arg, result>>

\* what the request handler never touches
aux == <<payload, runId, cache, call, health, arg, result>>

(* ------------------------- error messages ------------------------------ *)
\* A message is the sequence of its words; "x in msg.lower()" is a search for
\* a contiguous run of lower-cased words.

LowerWord(w) ==
    CASE w = "Viscous"  -> "viscous"
      [] w = "VISCOUS"  -> "viscous"
      [] w = "INVISCID" -> "inviscid"
      [] w = "No"       -> "no"
      [] w = "Command"  -> "command"
      [] w = "All"      -> "all"
      [] w = "Last"     -> "last"
      [] OTHER          -> w

Lower(msg) == [i \in 1..Len(msg) |-> LowerWord(msg[i])]

Contains(msg, phrase) ==
    \E i \in 0..(Len(msg) - Len(phrase)) :
        \A j \in 1..Len(phrase) : msg[i + j] = phrase[j]

\* str(subprocess.TimeoutExpired): "Command '[...]' timed out after N seconds"
TimeoutMsg(timeout) ==
    <<"Command", "timed", "out", "after",
      IF timeout = 90 THEN "90" ELSE "20", "seconds">>
ConvergenceMsg == <<"Viscous", "convergence", "failed", "at", "alpha">>
NoFileMsg(viscous) ==
    <<IF viscous THEN "VISCOUS" ELSE "INVISCID",
      "did", "not", "generate", "output", "file">>
NoCoeffMsg ==
    <<"No", "valid", "aerodynamic", "coefficients", "found", "for", "alpha">>
NoPressureMsg == <<"No", "pressure", "data">>
\* str(OSError) of a failed Popen
LaunchMsg == <<"No", "such", "file", "or", "directory">>
AllFailedPrefix == <<"All", "strategies", "failed.", "Last", "error:">>

(* ---------------------- one attempt: _run_xfoil_mode ------------------- *)
\* bug: the second step already gives up viscous mode
ModeOfInviscidSecond(k) ==
    CASE k = 1 -> [viscous |-> TRUE,  timeout |-> 90, smooth |-> FALSE]
      [] OTHER -> [viscous |-> FALSE, timeout |-> 20, smooth |-> FALSE]

\* the keyword arguments of the three calls in run_xfoil_sync
ModeOf(k) ==
    CASE k = 1 -> [viscous |-> TRUE,  timeout |-> 90, smooth |-> FALSE]
      [] k = 2 -> [viscous |-> TRUE,  timeout |-> 90, smooth |-> TRUE]
      [] OTHER -> [viscous |-> FALSE, timeout |-> 20, smooth |-> FALSE]

\* bug: the inviscid branch forgets to retag the result
FidelityTagAlwaysViscous(viscous) == "viscous"

FidelityTag(viscous) == IF viscous THEN "viscous" ELSE "inviscid"

\* what a finished solver process leaves behind
SolverOutputs ==
    [conv : BOOLEAN,      \* stdout reports a convergence failure
     cpFile : BOOLEAN,    \* cp_output.txt exists
     hasCL : BOOLEAN,     \* stdout holds a "CL = <number>"
     rows : 0..MaxRows]   \* valid rows in cp_output.txt

Raise(type, kind, msg) ==
    [ok |-> FALSE, kind |-> kind, type |-> type, msg |-> msg, tag |-> "none"]

\* the checks made after communicate() returned, in the code's order
Analyze(mode, out) ==
    IF out.conv THEN Raise("Exception", "convergence", ConvergenceMsg)
    ELSE IF ~out.cpFile THEN Raise("Exception", "nofile", NoFileMsg(mode.viscous))
    ELSE IF ~out.hasCL THEN Raise("Exception", "nocoeff", NoCoeffMsg)
    ELSE IF out.rows = 0 THEN Raise("Exception", "nopressure", NoPressureMsg)
    ELSE [ok |-> TRUE, kind |-> "success", type |-> "none", msg |-> <<>>,
          tag |-> FidelityTag(mode.viscous)]

TimedOut(mode) == Raise("TimeoutExpired", "timeout", TimeoutMsg(mode.timeout))
LaunchFailed == Raise("OSError", "launch", LaunchMsg)

\* bug: communicate() is called without a timeout
ExpiresNever(mode) == FALSE

\* proc.communicate(timeout=timeout) gives up once the positive timeout is over
Expires(mode) == mode.timeout > 0

\* bug: the timed-out process is left running
KillSkipped(ps, p) == ps

\* proc.kill(); proc.wait() in the TimeoutExpired handler
Kill(ps, p) == ps \ {p}

(* ------------------------ strategy: run_xfoil_sync --------------------- *)
\* bug: only the convergence message is recognised
RetryableConvergenceOnly(msg) == Contains(Lower(msg), <<"convergence">>)

\* "convergence" in error_msg or "no pressure data" in error_msg
Retryable(msg) ==
    \/ Contains(Lower(msg), <<"convergence">>)
    \/ Contains(Lower(msg), <<"no", "pressure", "data">>)

\* bug: every failure of a viscous step falls through
EscalatesAlways(k, res) == k \in {1, 2}

\* does a failure of strategy step k fall through to the next step?
Escalates(k, res) ==
    /\ k \in {1, 2}
    /\ (res.type = "TimeoutExpired" \/ Retryable(res.msg))

\* bug: the failed step is run again
NextAttemptSame(k) == k

\* the step reached by falling through
NextAttempt(k) == k + 1

\* the message of the exception that leaves run_xfoil_sync
RaisedMsg(k, res) ==
    IF k \in {1, 2} THEN res.msg ELSE AllFailedPrefix \o res.msg

(* --------------------------- responses --------------------------------- *)
NoResp == [status |-> 0, tag |-> "none", detail |-> <<>>]
Resp(status, tag, detail) == [status |-> status, tag |-> tag, detail |-> detail]

\* bug: the working directory is not removed
RemoveDirSkipped(ds, r) == ds

\* shutil.rmtree(work_dir, ignore_errors=True) in the finally block
RemoveDir(ds, r) == ds \ {r}

\* bug: the permit is not given back
ReleaseSkipped(s) == s

\* xfoil_semaphore.release() when "async with" is left
Release(s) == s + 1

Record(r, resp) ==
    obsResp' = IF r = probe THEN resp ELSE obsResp

LogStart(r, k) ==
    IF r = probe
    THEN Append(attemptLog,
                [mode |-> ModeOf(k), outcome |-> "running", msg |-> <<>>])
    ELSE attemptLog

LogEnd(log, r, res) ==
    IF r = probe
    THEN [log EXCEPT ![Len(log)].outcome = res.kind, ![Len(log)].msg = res.msg]
    ELSE log

(* ------------------- geometry: parse_dat_file and merge ---------------- *)
\* Coordinates are integers in units of 0.0005 chord: 0.001 is 2, 0.01 is 20,
\* 0.5 is 1000, 0.99 is 1980, 1.0 is 2000.  A point is <<x, y>>.  A file is a
\* sequence of rows, a row the sequence of its whitespace-separated tokens, a
\* token [num, val]: float(token) is val when num and raises ValueError
\* otherwise.

Abs(n) == IF n < 0 THEN -n ELSE n

Reverse(seq) == [i \in 1..Len(seq) |-> seq[Len(seq) + 1 - i]]

\* bug: the coordinate domain is not checked
KeepsRowNoDomain(row) ==
    /\ Len(row) >= 2
    /\ row[1].num /\ row[2].num

\* does the loop of parse_dat_file append the row to data_lines?
KeepsRow(row) ==
    /\ Len(row) >= 2
    /\ row[1].num /\ row[2].num
    /\ -1000 <= row[1].val /\ row[1].val <= 3000
    /\ -2000 <= row[2].val /\ row[2].val <= 2000

\* data_lines of parse_dat_file
DataLines(rows) ==
    LET kept == SelectSeq(rows, KeepsRow)
    IN  [i \in 1..Len(kept) |-> <<kept[i][1].val, kept[i][2].val>>]

\* section_break, as the 1-based index of the first lower point (0: none)
SectionBreak(d) ==
    LET S == {i \in 2..Len(d) : d[i][1] < 20 /\ d[i - 1][1] > 1000}
    IN  IF S = {} THEN 0 ELSE CHOOSE i \in S : \A j \in S : i <= j

\* x_coords.index(min(x_coords)), 1-based
MinXIndex(d) ==
    CHOOSE i \in 1..Len(d) :
        /\ \A j \in 1..Len(d) : d[i][1] <= d[j][1]
        /\ \A j \in 1..(i - 1) : d[j][1] > d[i][1]

\* "Remove duplicate TE if exists"
RemoveDupTE(m) ==
    IF /\ Len(m) > 1
       /\ Abs(m[1][1] - m[Len(m)][1]) < 2
       /\ Abs(m[1][2] - m[Len(m)][2]) < 2
    THEN SubSeq(m, 1, Len(m) - 1)
    ELSE m

\* the Lednicer branch: upper made to run TE to LE, lower LE to TE
MergeSections(d, b) ==
    LET upper == SubSeq(d, 1, b - 1)
        lower == SubSeq(d, b, Len(d))
        up == IF upper[1][1] < upper[Len(upper)][1] THEN Reverse(upper) ELSE upper
        lo == IF lower[1][1] > lower[Len(lower)][1] THEN Reverse(lower) ELSE lower
    IN  up \o lo

\* bug: a TE-to-TE loop is never reversed
OrientSingleKeep(d) == d

\* the single-section branch
OrientSingle(d) ==
    IF d[1][1] > 1980 /\ d[Len(d)][1] > 1980
    THEN LET le == MinXIndex(d)
         IN  IF le + 1 <= Len(d)
             THEN IF d[le + 1][2] < 0 THEN d ELSE Reverse(d)
             ELSE d
    ELSE d

detect_and_merge_sections(d) ==
    LET b == SectionBreak(d)
    IN  RemoveDupTE(IF b # 0 THEN MergeSections(d, b) ELSE OrientSingle(d))

(* --------------------------- uploaded files ---------------------------- *)
NumTok(v) == [num |-> TRUE, val |-> v]
TextTok == [num |-> FALSE, val |-> 0]

\* point i of an n-point airfoil written TE -> upper -> LE -> lower -> TE,
\* closed when its last point repeats the first
LoopPoint(n, closed, i) ==
    LET h == (n + 1) \div 2
        x == IF i <= h THEN 2000 - ((i - 1) * 2000) \div (h - 1)
                       ELSE ((i - h) * 2000) \div (n - h)
        t == (x * (2000 - x)) \div 10000
    IN  IF i = n /\ ~closed THEN <<x, -4>>
        ELSE IF i <= h THEN <<x, t>> ELSE <<x, -t>>

Loop(n, closed) == [i \in 1..n |-> LoopPoint(n, closed, i)]

\* a title line, a blank line and a line with one number
JunkHead == << <<TextTok, TextTok>>, <<>>, <<NumTok(1)>> >>

\* rows just outside the domain on each side, and rows with a non-numeric token
JunkTail ==
    << <<NumTok(3001), NumTok(0)>>, <<NumTok(-1001), NumTok(0)>>,
       <<NumTok(0), NumTok(2001)>>, <<NumTok(0), NumTok(-2001)>>,
       <<TextTok, NumTok(0)>>, <<NumTok(0), TextTok>> >>

\* rows on the corners of the domain
EdgeRows == << <<NumTok(3000), NumTok(2000)>>, <<NumTok(-1000), NumTok(-2000)>> >>

\* the lines of the uploaded file f = [n, closed, extra]
FileRows(f) ==
    LET pts == Loop(f.n, f.closed)
        body == [i \in 1..f.n |-> <<NumTok(pts[i][1]), NumTok(pts[i][2])>>]
    IN  CASE f.extra = "junk" -> JunkHead \o body \o JunkTail
          [] f.extra = "edge" -> body \o EdgeRows
          [] OTHER -> body

LoopSizes ==
    {MIN_POINTS - 2, MIN_POINTS - 1, MIN_POINTS, MAX_POINTS - 1, MAX_POINTS, MAX_POINTS + 1}

Files == [n : LoopSizes, closed : BOOLEAN, extra : {"none", "junk", "edge"}]

\* The airfoils given to detect_and_merge_sections: two surfaces of six
\* stations from the leading edge (0, 0) to the trailing edge at x = 1.
\*   layout  selig: TE -> upper -> LE -> lower -> TE;  selig_rev: lower first;
\*           lednicer: upper LE -> TE, then lower LE -> TE;  lednicer_rev:
\*           lower section first;  le_first: LE -> upper -> TE -> lower -> LE
\*   shared  the second surface repeats the point the first one ended on
\*   te      the trailing edges of the two surfaces are the same point, within
\*           0.001 of each other, or apart
\*   dense   the station before the trailing edge lies beyond x = 0.99
\*   nose    y of the lower surface at the station after the leading edge
StationX(g) == <<0, 10, 400, 800, IF g.dense THEN 1990 ELSE 1600, 2000>>

UpperY(g) ==
    <<0, 60, 120, 100, 10,
      CASE g.te = "same" -> 0 [] g.te = "near" -> 1 [] OTHER -> 4>>

LowerY(g) ==
    <<0, g.nose, -80, -60, -10,
      CASE g.te = "same" -> 0 [] g.te = "near" -> 0 [] OTHER -> -4>>

\* the surfaces, from the leading edge to the trailing edge
UpperSurface(g) == [i \in 1..6 |-> <<StationX(g)[i], UpperY(g)[i]>>]
LowerSurface(g) == [i \in 1..6 |-> <<StationX(g)[i], LowerY(g)[i]>>]

Airfoil(g) ==
    LET up == UpperSurface(g)
        lo == LowerSurface(g)
        first == CASE g.layout = "selig" -> Reverse(up)
                   [] g.layout = "selig_rev" -> Reverse(lo)
                   [] g.layout = "lednicer_rev" -> lo
                   [] OTHER -> up
        second == CASE g.layout = "selig" -> lo
                    [] g.layout = "selig_rev" -> up
                    [] g.layout = "lednicer_rev" -> up
                    [] g.layout = "lednicer" -> lo
                    [] OTHER -> Reverse(lo)
    IN  first \o (IF g.shared THEN second ELSE Tail(second))

Shapes ==
    [layout : {"selig", "selig_rev", "lednicer", "lednicer_rev", "le_first"},
     shared : BOOLEAN, te : {"same", "near", "apart"}, dense : BOOLEAN,
     nose : {-30, 0, 30}]

Geometries == {Airfoil(g) : g \in Shapes}

(* ------------- dashboard: run_xfoil_analysis and its cache ------------- *)
\* @st.cache_data memoizes run_xfoil_analysis on the hash of all its
\* arguments, for every session of the dashboard; an entry goes when its ttl
\* ends or when max_entries is exceeded.  A call that raises stores nothing.
Sessions == {"s1", "s2"}

\* the arguments of a call: file_content, filename, (reynolds, alpha); the
\* backend_url is the same for every call of a deployment
BaseArgs ==
    [content |-> "naca0012", filename |-> "a.dat", flow |-> "re1e5_a0",
     url |-> "backend"]

\* a call, and the calls that differ from it in one argument
CallArgs ==
    {BaseArgs, [BaseArgs EXCEPT !.filename = "b.dat"],
     [BaseArgs EXCEPT !.content = "naca4412"],
     [BaseArgs EXCEPT !.flow = "re1e6_a5"]}

\* bug: every session has a cache of its own
CacheKeyPerSession(s, args) == <<s, args>>

\* the key st.cache_data makes for a call of session s
CacheKey(s, args) == args

\* response.json() of a 200 answer: the backend's result for the upload
ResultOf(args) == [geometry |-> args.content, flow |-> args.flow]

\* the answers of one requests.post(url, files=files, data=data, timeout=90);
\* "503" is an answer that does not come from upload_airfoil (a gateway in
\* front of the backend, the server at another backend_url)
PostAnswers == {"200", "429", "400", "500", "503", "timeout", "connection"}

\* response.text, as far as the loop looks at it: the details that
\* upload_airfoil sends do not hold the word "Retrying", the text of another
\* server may
ResponseText(ans) ==
    IF ans = "503" THEN <<"Service", "unavailable.", "Retrying", "shortly.">>
    ELSE <<"detail">>

BusyMsg == <<"Server", "busy.", "Retrying", "in">>
RateLimitedMsg == <<"Server", "is", "rate-limited.">>
ServerErrorMsg == <<"Server", "Error">>
ClientTimeoutMsg == <<"Request", "timeout">>
ConnectMsg == <<"Cannot", "connect", "to", "backend", "server.">>
MaxRetriesMsg == <<"Max", "retries", "exceeded">>

max_retries == 3

\* bug: a request timeout is retried on the last pass too
LoopStepRetryLast(k, ans) ==
    CASE ans = "200" -> [do |-> "return", msg |-> <<>>]
      [] ans = "429" ->
            IF k < max_retries - 1 /\ Contains(BusyMsg, <<"Retrying">>)
            THEN [do |-> "again", msg |-> BusyMsg]
            ELSE [do |-> "raise", msg |-> RateLimitedMsg]
      [] ans = "timeout" -> [do |-> "again", msg |-> <<>>]
      [] ans = "connection" -> [do |-> "raise", msg |-> ConnectMsg]
      [] OTHER ->
            LET error_msg == ServerErrorMsg \o ResponseText(ans) IN
            IF Contains(error_msg, <<"Retrying">>) /\ k < max_retries - 1
            THEN [do |-> "again", msg |-> error_msg]
            ELSE [do |-> "raise", msg |-> error_msg]

\* what one pass of the retry loop does with the answer ans of attempt k
\* (k = 0, 1, 2): "return", "again" (the loop goes on) or "raise"
LoopStep(k, ans) ==
    CASE ans = "200" -> [do |-> "return", msg |-> <<>>]
      [] ans = "429" ->
            IF k < max_retries - 1 /\ Contains(BusyMsg, <<"Retrying">>)
            THEN [do |-> "again", msg |-> BusyMsg]
            ELSE [do |-> "raise", msg |-> RateLimitedMsg]
      [] ans = "timeout" ->
            IF k < max_retries - 1
            THEN [do |-> "again", msg |-> <<>>]
            ELSE [do |-> "raise", msg |-> ClientTimeoutMsg]
      [] ans = "connection" -> [do |-> "raise", msg |-> ConnectMsg]
      [] OTHER ->
            LET error_msg == ServerErrorMsg \o ResponseText(ans) IN
            IF Contains(error_msg, <<"Retrying">>) /\ k < max_retries - 1
            THEN [do |-> "again", msg |-> error_msg]
            ELSE [do |-> "raise", msg |-> error_msg]

IdleCall ==
    [state |-> "idle", args |-> <<>>, k |-> 0, served |-> "none",
     value |-> <<>>, msg |-> <<>>, last |-> "none"]

\* the dashboard is not in use
NoClient == cache = <<>> /\ call = [s \in Sessions |-> IdleCall]

\* bug: the outcome of a failed call is memoized too
StoredAlways(c, key, args, step) ==
    [k \in DOMAIN c \cup {key} |->
        IF k = key THEN [args |-> args, value |-> ResultOf(args)] ELSE c[k]]

\* the cache after the function body ended with step for key
Stored(c, key, args, step) ==
    IF step.do = "return"
    THEN [k \in DOMAIN c \cup {key} |->
            IF k = key THEN [args |-> args, value |-> ResultOf(args)] ELSE c[k]]
    ELSE c

\* c without the entry of key k
Without(c, k) == [j \in DOMAIN c \ {k} |-> c[j]]

\* session s calls run_xfoil_analysis(args): a cached value is returned at
\* once, otherwise the function body starts with the first requests.post
StartAnalysis(s, args) ==
    /\ call[s].state # "posting"
    /\ LET key == CacheKey(s, args) IN
       call' = [call EXCEPT ![s] =
                  IF key \in DOMAIN cache
                  THEN [state |-> "returned", args |-> args, k |-> 0,
                        served |-> "cache", value |-> cache[key].value,
                        msg |-> <<>>, last |-> "none"]
                  ELSE [state |-> "posting", args |-> args, k |-> 0,
                        served |-> "backend", value |-> <<>>, msg |-> <<>>,
                        last |-> "none"]]
    /\ UNCHANGED <<pc, attempt, sem, procs, dirs, probe, attemptLog, obsResp,
                   hits, payload, runId, cache, health, arg, result>>

\* requests.post of attempt call[s].k is answered with ans, and the loop
\* returns, raises or goes round, the statement after the loop raising when
\* range(max_retries) is used up; the value returned is stored, an entry
\* beyond max_entries pushing another one out
PostAnswered(s, ans) ==
    /\ call[s].state = "posting"
    /\ LET step == LoopStep(call[s].k, ans)
           key == CacheKey(s, call[s].args)
           c == Stored(cache, key, call[s].args, step)
       IN  /\ call' = [call EXCEPT ![s] =
                 CASE step.do = "return" ->
                        [@ EXCEPT !.state = "returned", !.last = ans,
                                  !.value = ResultOf(call[s].args)]
                   [] step.do = "again" ->
                        IF call[s].k + 1 < max_retries
                        THEN [@ EXCEPT !.k = @ + 1, !.last = ans]
                        ELSE [@ EXCEPT !.state = "raised", !.last = ans,
                                       !.msg = MaxRetriesMsg]
                   [] OTHER -> [@ EXCEPT !.state = "raised", !.last = ans,
                                         !.msg = step.msg]]
           /\ IF Cardinality(DOMAIN c) > MaxEntries
              THEN \E old \in DOMAIN c \ {key} : cache' = Without(c, old)
              ELSE cache' = c
    /\ UNCHANGED <<pc, attempt, sem, procs, dirs, probe, attemptLog, obsResp,
                   hits, payload, runId, health, arg, result>>

\* the ttl of the entry of key k ends
Expire(k) ==
    /\ k \in DOMAIN cache
    /\ cache' = Without(cache, k)
    /\ UNCHANGED <<pc, attempt, sem, procs, dirs, probe, attemptLog, obsResp,
                   hits, payload, runId, call, health, arg, result>>

(* ------------------------------ /health -------------------------------- *)
NoAnswer == [status |-> 0, body |-> "none", busy |-> FALSE]

\* nobody asks for /health; the solver binary is installed
NoHealth == health = [exists |-> TRUE, hits |-> 0, answer |-> NoAnswer]

\* bug: the limit lets one request too many through
HealthLimitedOffByOne(h) == h > HEALTH_LIMIT

\* the test of @limiter.limit("20/minute") on the monitor's address
HealthLimited(h) == h >= HEALTH_LIMIT

\* the "status" of the body health() returns
HealthStatus(xfoil_exists) == IF xfoil_exists THEN "healthy" ELSE "degraded"

\* GET /health by the monitor: the limiter's test, then health(); busy says
\* that no gate slot was free when health() answered
Health ==
    /\ health' =
         IF HealthLimited(health.hits)
         THEN [health EXCEPT !.answer =
                  [status |-> 429, body |-> "none", busy |-> FALSE]]
         ELSE [health EXCEPT !.hits = @ + 1,
                             !.answer = [status |-> 200,
                                         body |-> HealthStatus(health.exists),
                                         busy |-> (sem = 0)]]
    /\ UNCHANGED <<pc, attempt, sem, procs, dirs, probe, attemptLog, obsResp,
                   hits, payload, runId, cache, call, arg, result>>

(* ----------------------------- Init ------------------------------------ *)
InitCommon ==
    /\ pc = [r \in Requests |-> "idle"]
    /\ attempt = [r \in Requests |-> 0]
    /\ sem = GateCapacity
    /\ procs = {}
    /\ dirs = {}
    /\ attemptLog = <<>>
    /\ obsResp = NoResp

\* no call of a function studied alone is under way
NoCall == arg = <<>> /\ result = <<>>

\* the requests draw run ids that differ from one another
UniqueIds == runId = [r \in Requests |-> r]

\* the remote addresses requests come from (key_func=get_remote_address)
Clients == {"a", "b"}
ClientOf(r) == IF r % 2 = 1 THEN "a" ELSE "b"

\* no payload fixed: every request's content is drawn when it arrives
AnyPayload == [fixed |-> FALSE]

Init ==
    /\ InitCommon
    /\ UniqueIds
    /\ NoClient
    /\ NoHealth
    /\ NoCall
    /\ probe = 1
    /\ hits = [c \in Clients |-> 0]
    /\ payload = AnyPayload

(* ---------------------------- actions ---------------------------------- *)
ReynoldsVals == {MIN_REYNOLDS - 1, MIN_REYNOLDS, MAX_REYNOLDS, MAX_REYNOLDS + 1}
AlphaVals == {MIN_ALPHA - 1, MIN_ALPHA, MAX_ALPHA, MAX_ALPHA + 1}
FileNames == {<<"naca0012", ".dat">>, <<"naca0012", ".txt">>}

ParamsOK(reynolds, alpha, filename) ==
    /\ MIN_REYNOLDS <= reynolds /\ reynolds <= MAX_REYNOLDS
    /\ MIN_ALPHA <= alpha /\ alpha <= MAX_ALPHA
    /\ filename[Len(filename)] = ".dat"

\* the outcomes of the parameter validation of request r: of its payload when
\* that is fixed, of any payload otherwise
ParamChecks(r) ==
    IF r = probe /\ payload.fixed
    THEN {ParamsOK(payload.reynolds, payload.alpha, payload.filename)}
    ELSE {ParamsOK(reynolds, alpha, filename) :
              reynolds \in ReynoldsVals, alpha \in AlphaVals, filename \in FileNames}

\* bug: the limit lets one request too many through
LimitedOffByOne(h) == h > RATE_LIMIT

\* the limiter's test, made by the decorator before the handler body runs
Limited(h) == h >= RATE_LIMIT

\* the limiter's check, then upload_airfoil up to os.makedirs: parameter
\* validation, working directory
Arrive(r) ==
    /\ pc[r] = "idle"
    /\ IF Limited(hits[ClientOf(r)])
       THEN /\ pc' = [pc EXCEPT ![r] = "limited"]
            /\ Record(r, Resp(429, "none", <<"Rate", "limit", "exceeded">>))
            /\ UNCHANGED <<dirs, hits>>
       ELSE /\ hits' = [hits EXCEPT ![ClientOf(r)] = @ + 1]
            /\ \E ok \in ParamChecks(r) :
                 IF ok
                 THEN /\ dirs' = dirs \cup {runId[r]}
                      /\ pc' = [pc EXCEPT ![r] = "created"]
                      /\ UNCHANGED obsResp
                 ELSE /\ pc' = [pc EXCEPT ![r] = "done"]
                      /\ Record(r, Resp(400, "none", <<"bad", "parameters">>))
                      /\ UNCHANGED dirs
    /\ UNCHANGED <<attempt, sem, procs, probe, attemptLog, aux>>

\* the rate-limit window of client c ends
WindowReset(c) ==
    /\ hits[c] > 0
    /\ hits' = [hits EXCEPT ![c] = 0]
    /\ UNCHANGED <<pc, attempt, sem, procs, dirs, probe, attemptLog, obsResp, aux>>

FileSizes == {MAX_FILE_SIZE, MAX_FILE_SIZE + 1}
ValidRowCounts == {MIN_POINTS - 1, MIN_POINTS, MAX_POINTS, MAX_POINTS + 1}

\* len(parse_dat_file(...)): rows in the domain, less a duplicate trailing edge
NumCoords(nValid, dupTE) == IF dupTE THEN nValid - 1 ELSE nValid

TooLargeMsg == <<"File", "too", "large">>
InsufficientMsg == <<"Insufficient", "valid", "coordinates">>
TooManyMsg == <<"Too", "many", "points">>

\* bug: the content size is not checked
GeometryErrorNoSize(size, nValid, nCoords) ==
    IF nValid < MIN_POINTS THEN InsufficientMsg
    ELSE IF nCoords > MAX_POINTS THEN TooManyMsg
    ELSE <<>>

\* the detail of the 400 raised between file.read() and the write of
\* airfoil_fixed.dat for content of size bytes, nValid rows kept by
\* parse_dat_file and nCoords points returned by it; <<>> when none is raised
GeometryError(size, nValid, nCoords) ==
    IF size > MAX_FILE_SIZE THEN TooLargeMsg
    ELSE IF nValid < MIN_POINTS THEN InsufficientMsg
    ELSE IF nCoords > MAX_POINTS THEN TooManyMsg
    ELSE <<>>

\* the outcomes of reading and parsing the file of request r
GeometryChecks(r) ==
    IF r = probe /\ payload.fixed
    THEN LET data_lines == DataLines(FileRows(payload.file))
         IN  {GeometryError(payload.size, Len(data_lines),
                            IF Len(data_lines) < MIN_POINTS THEN 0
                            ELSE Len(detect_and_merge_sections(data_lines)))}
    ELSE {GeometryError(size, nValid, NumCoords(nValid, dupTE)) :
              size \in FileSizes, nValid \in ValidRowCounts, dupTE \in BOOLEAN}

\* upload_airfoil from file.read() to the write of airfoil_fixed.dat
ReadAndParse(r) ==
    /\ pc[r] = "created"
    /\ \E err \in GeometryChecks(r) :
         IF err = <<>>
         THEN /\ pc' = [pc EXCEPT ![r] = "waiting"]
              /\ UNCHANGED <<dirs, obsResp>>
         ELSE /\ pc' = [pc EXCEPT ![r] = "done"]
              /\ dirs' = RemoveDir(dirs, runId[r])
              /\ Record(r, Resp(400, "none", err))
    /\ UNCHANGED <<attempt, sem, procs, probe, attemptLog, hits, aux>>

\* "async with xfoil_semaphore" entered; run_xfoil_sync starts in a worker thread
Acquire(r) ==
    /\ pc[r] = "waiting"
    /\ sem > 0
    /\ sem' = sem - 1
    /\ pc' = [pc EXCEPT ![r] = "launch"]
    /\ attempt' = [attempt EXCEPT ![r] = 1]
    /\ UNCHANGED <<procs, dirs, probe, attemptLog, obsResp, hits, aux>>

\* the strategy and the handler after strategy step attempt[r] ended with res,
\* given the processes ps and the log lg left by that step
EndAttempt(r, res, ps, lg) ==
    LET k == attempt[r] IN
    /\ procs' = ps
    /\ attemptLog' = lg
    /\ IF res.ok
       THEN /\ pc' = [pc EXCEPT ![r] = "done"]
            /\ attempt' = [attempt EXCEPT ![r] = 0]
            /\ sem' = Release(sem)
            /\ dirs' = RemoveDir(dirs, runId[r])
            /\ Record(r, Resp(200, res.tag, <<>>))
       ELSE IF Escalates(k, res)
       THEN /\ pc' = [pc EXCEPT ![r] = "launch"]
            /\ attempt' = [attempt EXCEPT ![r] = NextAttempt(k)]
            /\ UNCHANGED <<sem, dirs, obsResp>>
       ELSE /\ pc' = [pc EXCEPT ![r] = "done"]
            /\ attempt' = [attempt EXCEPT ![r] = 0]
            /\ sem' = Release(sem)
            /\ dirs' = RemoveDir(dirs, runId[r])
            /\ Record(r, Resp(500, "none", RaisedMsg(k, res)))
    /\ UNCHANGED <<probe, hits, aux>>

\* subprocess.Popen succeeds: the solver process runs
Launch(r) ==
    /\ pc[r] = "launch"
    /\ pc' = [pc EXCEPT ![r] = "running"]
    /\ procs' = procs \cup {<<r, attempt[r]>>}
    /\ attemptLog' = LogStart(r, attempt[r])
    /\ UNCHANGED <<attempt, sem, dirs, probe, obsResp, hits, aux>>

\* subprocess.Popen raises: no process
LaunchError(r) ==
    /\ pc[r] = "launch"
    /\ EndAttempt(r, LaunchFailed, procs,
                  LogEnd(LogStart(r, attempt[r]), r, LaunchFailed))

\* proc.communicate() returns: the process has exited, its output is judged
SolverExit(r) ==
    /\ pc[r] = "running"
    /\ \E res \in {Analyze(ModeOf(attempt[r]), out) : out \in SolverOutputs} :
         EndAttempt(r, res, procs \ {<<r, attempt[r]>>},
                    LogEnd(attemptLog, r, res))

\* proc.communicate() raises TimeoutExpired: the process is killed
Timeout(r) ==
    /\ pc[r] = "running"
    /\ Expires(ModeOf(attempt[r]))
    /\ LET res == TimedOut(ModeOf(attempt[r])) IN
       EndAttempt(r, res, Kill(procs, <<r, attempt[r]>>),
                  LogEnd(attemptLog, r, res))

Next ==
    \E r \in Requests :
        \/ Arrive(r)
        \/ ReadAndParse(r)
        \/ Acquire(r)
        \/ Launch(r)
        \/ LaunchError(r)
        \/ SolverExit(r)
        \/ Timeout(r)

Spec == Init /\ [][Next]_vars

TypeOK ==
    /\ pc \in [Requests -> {"idle", "limited", "created", "waiting", "launch",
                             "running", "done"}]
    /\ hits \in [Clients -> 0..RATE_LIMIT]
    /\ attempt \in [Requests -> 0..3]
    /\ sem \in 0..GateCapacity
    /\ procs \subseteq (Requests \X (1..3))
    /\ dirs \subseteq Requests
    /\ runId \in [Requests -> Requests]

(* ------------------------- fair specification -------------------------- *)
\* No request is recorded; the event loop resumes a handler that can go on,
\* the worker thread runs, and communicate(timeout=...) returns or raises.
InitLive ==
    /\ InitCommon
    /\ UniqueIds
    /\ NoClient
    /\ NoHealth
    /\ NoCall
    /\ probe = 0
    /\ hits = [c \in Clients |-> 0]
    /\ payload = AnyPayload

Fairness ==
    \A r \in Requests :
        /\ WF_vars(Acquire(r))
        /\ WF_vars(Launch(r) \/ LaunchError(r))
        /\ WF_vars(SolverExit(r) \/ Timeout(r))

SpecLive == InitLive /\ [][Next]_vars /\ Fairness

(* ------------------------------ claims --------------------------------- *)
FailureKinds == {"timeout", "convergence", "nofile", "nocoeff", "nopressure", "launch"}

\* C1: for one request the strategy starts at most 3 attempts (so launches the
\* solver at most 3 times), whatever the attempts' outcomes, and no attempt
\* mode is used twice.
C1_AtMostThreeAttempts ==
    /\ Len(attemptLog) <= 3
    /\ \A i, j \in 1..Len(attemptLog) :
         i # j => attemptLog[i].mode # attemptLog[j].mode

C1_Witness ==
    /\ pc[probe] = "done"
    /\ Len(attemptLog) = 3
    /\ attemptLog[1].outcome = "timeout"
    /\ attemptLog[2].outcome = "convergence"
    /\ attemptLog[3].outcome = "nofile"

\* C2: the attempts of a request are viscous-standard, viscous-smoothed,
\* inviscid, in this order; an attempt is started only when every earlier
\* attempt has ended in failure (so none after a success, and the inviscid one
\* only after both viscous ones failed).
EscalationOrder ==
    <<[viscous |-> TRUE,  timeout |-> 90, smooth |-> FALSE],
      [viscous |-> TRUE,  timeout |-> 90, smooth |-> TRUE],
      [viscous |-> FALSE, timeout |-> 20, smooth |-> FALSE]>>

C2_EscalationOrder ==
    /\ Len(attemptLog) <= Len(EscalationOrder)
    /\ \A i \in 1..Len(attemptLog) :
         /\ i <= Len(EscalationOrder) => attemptLog[i].mode = EscalationOrder[i]
         /\ i < Len(attemptLog) => attemptLog[i].outcome \in FailureKinds

C2_Witness ==
    /\ Len(attemptLog) = 3
    /\ attemptLog[3].outcome = "success"
    /\ pc[probe] = "done"

\* C3: when the first or second attempt ends with a timeout, a reported
\* convergence failure or zero valid pressure rows, the request is not failed:
\* the strategy goes on to the next attempt.
C3_RetryableAdvances ==
    \A i \in {1, 2} :
        (/\ Len(attemptLog) >= i
         /\ attemptLog[i].outcome \in {"timeout", "convergence", "nopressure"})
        => \/ Len(attemptLog) > i
           \/ pc[probe] = "launch" /\ attempt[probe] = i + 1 /\ obsResp = NoResp

C3_Witness ==
    /\ Len(attemptLog) = 3
    /\ attemptLog[1].outcome = "nopressure"
    /\ attemptLog[2].outcome = "timeout"

\* C4: when the first or second attempt completes without a CL value in its
\* output, the strategy goes on to the next attempt instead of failing the
\* request.
C4_MissingCoefficientsAdvances ==
    \A i \in {1, 2} :
        (Len(attemptLog) >= i /\ attemptLog[i].outcome = "nocoeff")
        => \/ Len(attemptLog) > i
           \/ pc[probe] = "launch" /\ attempt[probe] = i + 1 /\ obsResp = NoResp

\* C5: an attempt that fails with any other error (the solver cannot be
\* launched, no pressure file was written) is the request's last attempt, and
\* the request is answered with a 5xx.
C5_OtherErrorAborts ==
    \A i \in 1..Len(attemptLog) :
        attemptLog[i].outcome \in {"launch", "nofile"}
        => /\ Len(attemptLog) = i
           /\ pc[probe] = "done"
           /\ obsResp.status \in 500..599

C5_Witness ==
    /\ Len(attemptLog) = 2
    /\ attemptLog[1].outcome = "convergence"
    /\ attemptLog[2].outcome = "launch"
    /\ obsResp.status = 500

\* C6: a successful response carries a fidelity tag; the tag is "inviscid"
\* exactly when the third attempt produced the result and "viscous" when the
\* first or second did.
C6_FidelityTag ==
    obsResp.status = 200
    => /\ obsResp.tag \in {"viscous", "inviscid"}
       /\ obsResp.tag = "inviscid" <=> Len(attemptLog) = 3
       /\ Len(attemptLog) \in {1, 2} => obsResp.tag = "viscous"

C6_Witness ==
    /\ obsResp.status = 200
    /\ obsResp.tag = "inviscid"
    /\ Len(attemptLog) = 3
    /\ attemptLog[3].outcome = "success"

\* C7: when all three attempts failed, the failure returned to the caller
\* names, for each of the three attempts, that attempt's own failure reason.
C7_ConsolidatedFailure ==
    (/\ pc[probe] = "done"
     /\ Len(attemptLog) = 3
     /\ attemptLog[3].outcome \in FailureKinds)
    => /\ obsResp.status \in 500..599
       /\ \A i \in 1..3 : Contains(obsResp.detail, attemptLog[i].msg)

\* C8: once a request has been answered (2xx, 4xx or 5xx), its working
\* directory does not exist.
C8_WorkDirRemoved ==
    \A r \in Requests : pc[r] = "done" => runId[r] \notin dirs

C8_Witness ==
    /\ pc[probe] = "done"
    /\ runId[probe] \notin dirs
    /\ Len(attemptLog) = 3
    /\ attemptLog[1].outcome = "timeout"
    /\ attemptLog[3].outcome = "timeout"
    /\ obsResp.status = 500
    /\ \E r \in Requests : runId[r] \in dirs

\* C9: at most 3 solver processes run at any time, however many requests have
\* been admitted and whatever attempts timed out or failed before.
C9_AtMostThreeProcesses == Cardinality(procs) <= 3

C9_Witness ==
    /\ Cardinality(procs) = 3
    /\ \E r \in Requests : pc[r] = "waiting"
    /\ \E p \in procs : p[1] = probe /\ p[2] = 3
    /\ attemptLog[1].outcome = "timeout"

\* C10: a request waiting for a gate slot is never answered while it waits,
\* and a request that waits while all 3 slots are held eventually gets a slot
\* and enters the solver run.
C10_WaitingRequestRuns ==
    /\ [][\A r \in Requests :
            pc[r] = "waiting" => pc'[r] \in {"waiting", "launch"}]_vars
    /\ \A r \in Requests :
         (pc[r] = "waiting" /\ sem = 0) ~> (pc[r] = "launch")

C10_Witness ==
    /\ sem = 0
    /\ \E r \in Requests : pc[r] = "waiting"
    /\ \E r \in Requests : pc[r] = "running" /\ attempt[r] = 3

(* ---------------------- rate-limited specification --------------------- *)
\* Client "a" has already used all but one request of its window, windows
\* end as time passes, and no request is recorded.
InitRate ==
    /\ InitCommon
    /\ UniqueIds
    /\ NoClient
    /\ NoHealth
    /\ NoCall
    /\ probe = 0
    /\ hits = [c \in Clients |-> IF c = "a" THEN RATE_LIMIT - 1 ELSE 0]
    /\ payload = AnyPayload

NextRate ==
    \/ Next
    \/ \E c \in Clients : WindowReset(c)

SpecRate == InitRate /\ [][NextRate]_vars

\* C11: a request is answered 429 exactly when its client has used up its 5
\* requests of the window, whatever the gate's occupancy and before any
\* validation; a rejected request creates no working directory, takes no gate
\* slot, starts no solver and never does later.
C11_RateLimitFirst ==
    [][\A r \in Requests :
         /\ (pc[r] = "idle" /\ pc'[r] # "idle")
            => (pc'[r] = "limited" <=> hits[ClientOf(r)] >= 5)
         /\ (pc[r] # "limited" /\ pc'[r] = "limited")
            => /\ pc[r] = "idle"
               /\ UNCHANGED <<dirs, sem, procs, attempt>>
         /\ pc[r] = "limited"
            => pc'[r] = "limited" /\ runId[r] \notin dirs' /\ attempt'[r] = 0]_vars

C11_Witness ==
    /\ sem = 0
    /\ \E r \in Requests : pc[r] = "limited"
    /\ \E r \in Requests : pc[r] = "running" /\ ClientOf(r) = "a"

(* -------------------- one request with a known payload ----------------- *)
\* The earlier requests are over and the window of the limiter has ended; the
\* probe arrives with a payload chosen at the start.
Payloads ==
    [fixed : {TRUE}, reynolds : ReynoldsVals, alpha : AlphaVals,
     filename : FileNames, size : FileSizes, file : Files]

InitSingle ==
    /\ UniqueIds
    /\ NoClient
    /\ NoHealth
    /\ pc = [r \in Requests |-> IF r = 1 THEN "idle" ELSE "done"]
    /\ attempt = [r \in Requests |-> 0]
    /\ sem = GateCapacity
    /\ procs = {}
    /\ dirs = {}
    /\ probe = 1
    /\ attemptLog = <<>>
    /\ obsResp = NoResp
    /\ hits = [c \in Clients |-> 0]
    /\ payload \in Payloads
    /\ arg = <<>>
    /\ result = <<>>

SpecSingle == InitSingle /\ [][Next]_vars

\* the rows of the probe's file that give an (x, y) pair in the domain
\* x in [-0.5, 1.5], y in [-1.0, 1.0]
InDomainRows ==
    LET rows == FileRows(payload.file)
    IN  {i \in 1..Len(rows) :
            /\ Len(rows[i]) >= 2
            /\ rows[i][1].num /\ rows[i][2].num
            /\ rows[i][1].val \in -1000..3000
            /\ rows[i][2].val \in -2000..2000}

\* the probe never got to the gate or the solver
NeverAtSolver ==
    /\ pc[probe] \in {"idle", "created", "done"}
    /\ attempt[probe] = 0
    /\ sem = 3
    /\ procs = {}
    /\ attemptLog = <<>>

\* C12: a request with reynolds outside [1e4, 1e7], alpha outside [-10, 20], a
\* file name not ending in .dat, more than 1 MB of content or fewer than 10
\* parsable rows is answered 4xx without ever taking a gate slot or launching
\* the solver; a request with values on the bounds is not answered 4xx.
C12_InvalidRejected ==
    LET invalid ==
            \/ payload.reynolds < 10000 \/ payload.reynolds > 10000000
            \/ payload.alpha < -10 \/ payload.alpha > 20
            \/ payload.filename[Len(payload.filename)] # ".dat"
            \/ payload.size > 1048576
            \/ Cardinality(InDomainRows) < 10
        onBounds ==
            /\ payload.reynolds \in {10000, 10000000}
            /\ payload.alpha \in {-10, 20}
            /\ payload.filename[Len(payload.filename)] = ".dat"
            /\ payload.size = 1048576
            /\ Cardinality(InDomainRows) \in {10, 500}
    IN  /\ invalid => /\ NeverAtSolver
                      /\ pc[probe] = "done" => obsResp.status \in 400..499
        /\ onBounds => /\ pc[probe] = "done" => obsResp.status \notin 400..499

C12_Witness ==
    /\ pc[probe] = "done"
    /\ obsResp.status = 400
    /\ payload.reynolds = 10000 /\ payload.alpha = 20
    /\ payload.size = 1048577

\* the request passes the parameter and size tests, so its file is parsed
ReachesParser ==
    /\ payload.reynolds \in 10000..10000000
    /\ payload.alpha \in -10..20
    /\ payload.filename[Len(payload.filename)] = ".dat"
    /\ payload.size <= 1048576

\* C13: a file with fewer than 10 rows giving a pair in the domain is answered
\* 4xx "insufficient points" and never gets to the solver, however many
\* out-of-domain or non-numeric rows it has besides; such rows cause no error
\* of their own, so a file with 10 or more in-domain rows is not answered so.
C13_InsufficientPoints ==
    /\ Cardinality(InDomainRows) < 10
       => /\ NeverAtSolver
          /\ (ReachesParser /\ pc[probe] = "done")
             => /\ obsResp.status \in 400..499
                /\ obsResp.detail = <<"Insufficient", "valid", "coordinates">>
    /\ Cardinality(InDomainRows) >= 10
       => obsResp.detail # <<"Insufficient", "valid", "coordinates">>

C13_Witness ==
    /\ pc[probe] = "done"
    /\ obsResp.detail = <<"Insufficient", "valid", "coordinates">>
    /\ payload.file.extra = "junk"
    /\ payload.file.n = 9
    /\ Len(FileRows(payload.file)) > 10

\* C14: a file with more than 500 rows giving a pair in the domain is answered
\* 4xx "too many points" and never gets to the solver.
C14_TooManyPoints ==
    Cardinality(InDomainRows) > 500
    => /\ NeverAtSolver
       /\ (ReachesParser /\ pc[probe] = "done")
          => /\ obsResp.status \in 400..499
             /\ obsResp.detail = <<"Too", "many", "points">>

(* ------------------- detect_and_merge_sections alone ------------------- *)
\* arg is the list given to detect_and_merge_sections; result holds what it
\* returned, then what it returned when given that again.
InitGeom ==
    /\ InitCommon
    /\ UniqueIds
    /\ NoClient
    /\ NoHealth
    /\ probe = 0
    /\ hits = [c \in Clients |-> 0]
    /\ payload = AnyPayload
    /\ arg \in Geometries
    /\ result = <<>>

Normalize ==
    /\ result = <<>>
    /\ result' = <<detect_and_merge_sections(arg)>>
    /\ UNCHANGED <<pc, attempt, sem, procs, dirs, probe, attemptLog, obsResp,
                   hits, payload, runId, cache, call, health, arg>>

Renormalize ==
    /\ Len(result) = 1
    /\ result' = Append(result, detect_and_merge_sections(result[1]))
    /\ UNCHANGED <<pc, attempt, sem, procs, dirs, probe, attemptLog, obsResp,
                   hits, payload, runId, cache, call, health, arg>>

NextGeom == Normalize \/ Renormalize

SpecGeom == InitGeom /\ [][NextGeom]_vars

\* C15: normalizing a normalized geometry gives it back, point for point and
\* in the same order.
C15_Idempotent ==
    Len(result) = 2 => result[2] = result[1]

\* x falls strictly along s from index a to index b
StrictlyDecreasing(s, a, b) == \A i \in a..(b - 1) : s[i][1] > s[i + 1][1]
StrictlyIncreasing(s, a, b) == \A i \in a..(b - 1) : s[i][1] < s[i + 1][1]

\* the indices of s where x is least
MinXPoints(s) == {i \in 1..Len(s) : \A j \in 1..Len(s) : s[i][1] <= s[j][1]}

\* arg is two sections, each monotone in x, the second starting where x
\* returns to the origin; the first is the upper surface
TwoSections ==
    LET b == SectionBreak(arg)
    IN  /\ b # 0
        /\ \E i \in 1..(b - 1) : \A j \in b..Len(arg) : arg[i][2] > arg[j][2]
        /\ StrictlyIncreasing(arg, 1, b - 1) \/ StrictlyDecreasing(arg, 1, b - 1)
        /\ StrictlyIncreasing(arg, b, Len(arg)) \/ StrictlyDecreasing(arg, b, Len(arg))

\* C16: a two-section input of U and L points is normalized to U+L or U+L-1
\* points that begin and end at the trailing edge, with x strictly decreasing
\* to one minimum-x point and strictly increasing from it.  (An output that
\* lost a duplicate trailing edge is let off ending there: the property is
\* then about the leading edge and the two halves alone.)
C16_TwoSectionMerge ==
    (Len(result) >= 1 /\ TwoSections)
    => LET out == result[1]
       IN  /\ Len(out) \in {Len(arg), Len(arg) - 1}
           /\ out[1][1] > 1980
           /\ out[Len(out)][1] > 1980 \/ Len(out) = Len(arg) - 1
           /\ Cardinality(MinXPoints(out)) = 1
           /\ \E k \in 1..Len(out) :
                /\ StrictlyDecreasing(out, 1, k)
                /\ StrictlyIncreasing(out, k, Len(out))

\* C17: no two adjacent points of a normalized geometry lie within 0.001 of
\* each other in both coordinates.
C17_NoAdjacentDuplicates ==
    Len(result) >= 1
    => \A i \in 1..(Len(result[1]) - 1) :
          ~ /\ Abs(result[1][i][1] - result[1][i + 1][1]) < 2
            /\ Abs(result[1][i][2] - result[1][i + 1][2]) < 2

\* C18: a single-section input whose first point is the leading edge is
\* normalized to a sequence that begins at the trailing edge, runs to the
\* leading edge and returns to the trailing edge.
C18_LeadingEdgeFirst ==
    (Len(result) >= 1 /\ SectionBreak(arg) = 0 /\ 1 \in MinXPoints(arg))
    => LET out == result[1]
       IN  /\ out[1][1] > 1980 /\ out[Len(out)][1] > 1980
           /\ \E k \in 2..(Len(out) - 1) : k \in MinXPoints(out)

\* arg is a single section that begins near the trailing edge
BeginsNearTE ==
    /\ SectionBreak(arg) = 0
    /\ arg[1][1] > 1980

\* s without its last point when that lies within 0.001 of the first
WithoutDuplicateTE(s) ==
    IF /\ Abs(s[1][1] - s[Len(s)][1]) <= 1
       /\ Abs(s[1][2] - s[Len(s)][2]) <= 1
    THEN [i \in 1..(Len(s) - 1) |-> s[i]]
    ELSE s

Labels == {"CL", "CD", "CDp", "Cm"}

Occurrences ==
    [label : Labels, num : {TRUE}, val : 1..2]
        \cup [label : Labels, num : {FALSE}, val : {0}]

Stdouts == UNION {[1..n -> Occurrences] : n \in 0..MaxOccurrences}

\* re.findall(patterns[key], stdout)
FindAll(stdout, key) ==
    LET IsMatch(o) == o.label = key /\ o.num
    IN  SelectSeq(stdout, IsMatch)

extract_aerodynamic_coefficients(stdout) ==
    LET keys == {key \in Labels : FindAll(stdout, key) # <<>>}
    IN  [key \in keys |-> FindAll(stdout, key)[Len(FindAll(stdout, key))].val]

InitCoef ==
    /\ InitCommon
    /\ UniqueIds
    /\ NoClient
    /\ NoHealth
    /\ probe = 0
    /\ hits = [c \in Clients |-> 0]
    /\ payload = AnyPayload
    /\ arg \in Stdouts
    /\ result = <<>>

Extract ==
    /\ result = <<>>
    /\ result' = <<extract_aerodynamic_coefficients(arg)>>
    /\ UNCHANGED <<pc, attempt, sem, procs, dirs, probe, attemptLog, obsResp,
                   hits, payload, runId, cache, call, health, arg>>

SpecCoef == InitCoef /\ [][Extract]_vars

\* the place of the last occurrence of label key in arg, 0 when there is none
LastOccurrence(key) ==
    LET occ == {i \in 1..Len(arg) : arg[i].label = key}
    IN  IF occ = {} THEN 0 ELSE CHOOSE i \in occ : \A j \in occ : j <= i

\* C20: the value extracted for a label is the value of the label's last
\* occurrence in the output, and a label that never occurs is absent from the
\* mapping.  (A label whose last occurrence carries no number may be absent.)
C20_LastOccurrence ==
    Len(result) = 1
    => \A key \in Labels :
          LET last == LastOccurrence(key)
          IN  /\ key \in DOMAIN result[1]
                 => /\ last # 0
                    /\ arg[last].num
                    /\ result[1][key] = arg[last].val
              /\ (last # 0 /\ arg[last].num) => key \in DOMAIN result[1]

(* ------------- the pressure file: "Parse CP data" alone ---------------- *)
\* A line of cp_output.txt is the sequence of its tokens [num, alpha, val]:
\* float(token) is val when num and raises ValueError otherwise; alpha says
\* that the token holds a letter.  "0.5" is a plain number, "1e-05" a number
\* with a letter, "*******" (a Fortran field overflow) neither, "x" a word.
CpTokens ==
    {[num |-> TRUE, alpha |-> FALSE, val |-> 1],
     [num |-> TRUE, alpha |-> FALSE, val |-> 2],
     [num |-> TRUE, alpha |-> TRUE, val |-> 3],
     [num |-> FALSE, alpha |-> FALSE, val |-> 0],
     [num |-> FALSE, alpha |-> TRUE, val |-> 0]}

CpLines == UNION {[1..n -> CpTokens] : n \in 0..2}

CpFiles == UNION {[1..n -> CpLines] : n \in 0..MaxLines}

\* one pass of the loop over the lines of cp_output.txt
ParseCpLine(acc, line) ==
    IF line = <<>> \/ \E i \in 1..Len(line) : line[i].alpha THEN acc
    ELSE IF Len(line) < 2 THEN acc
    ELSE IF ~line[1].num THEN acc
    ELSE IF ~line[2].num
         THEN [acc EXCEPT !.cp_x = Append(@, line[1].val)]
    ELSE [cp_x |-> Append(acc.cp_x, line[1].val),
          cp_values |-> Append(acc.cp_values, line[2].val)]

RECURSIVE ParseCpFrom(_, _, _)
ParseCpFrom(acc, lines, i) ==
    IF i > Len(lines) THEN acc
    ELSE ParseCpFrom(ParseCpLine(acc, lines[i]), lines, i + 1)

\* cp_x, cp_values after the loop
ParseCp(lines) == ParseCpFrom([cp_x |-> <<>>, cp_values |-> <<>>], lines, 1)

InitCp ==
    /\ InitCommon
    /\ UniqueIds
    /\ NoClient
    /\ NoHealth
    /\ probe = 0
    /\ hits = [c \in Clients |-> 0]
    /\ payload = AnyPayload
    /\ arg \in CpFiles
    /\ result = <<>>

ReadCp ==
    /\ result = <<>>
    /\ result' = <<ParseCp(arg)>>
    /\ UNCHANGED <<pc, attempt, sem, procs, dirs, probe, attemptLog, obsResp,
                   hits, payload, runId, cache, call, health, arg>>

SpecCp == InitCp /\ [][ReadCp]_vars

\* C21: when the attempt succeeds (cp_x is not empty), cp_x and cp_values have
\* the same length and, for every i, cp_x[i] and cp_values[i] are the first
\* and second token of one line of the file.
C21_ParallelArrays ==
    (Len(result) = 1 /\ result[1].cp_x # <<>>)
    => /\ Len(result[1].cp_x) = Len(result[1].cp_values)
       /\ \A i \in 1..Len(result[1].cp_x) :
            \E j \in 1..Len(arg) :
                /\ Len(arg[j]) >= 2
                /\ arg[j][1].num /\ arg[j][1].val = result[1].cp_x[i]
                /\ arg[j][2].num /\ arg[j][2].val = result[1].cp_values[i]

(* -------- one attempt's checks on what the solver left behind ---------- *)
\* arg is what _run_xfoil_mode finds after communicate() returned: the mode,
\* whether stdout reports a convergence failure, whether cp_output.txt
\* exists, the label occurrences of stdout and the lines of cp_output.txt.
LabelSets == SUBSET Labels

\* a stdout that prints each label of ls once, with a number
StdoutWith(ls) ==
    LET Present(o) == o.label \in ls
    IN  SelectSeq(<<[label |-> "CL", num |-> TRUE, val |-> 1],
                    [label |-> "Cm", num |-> TRUE, val |-> 1],
                    [label |-> "CD", num |-> TRUE, val |-> 1],
                    [label |-> "CDp", num |-> TRUE, val |-> 1]>>, Present)

PlainNumber == [num |-> TRUE, alpha |-> FALSE, val |-> 1]
Overflow == [num |-> FALSE, alpha |-> FALSE, val |-> 0]

\* cp_output.txt: empty, one good row, one row with an unreadable value
RunCpFiles == {<<>>, << <<PlainNumber, PlainNumber>> >>, << <<PlainNumber, Overflow>> >>}

Runs ==
    [viscous : BOOLEAN, conv : BOOLEAN, cpFile : BOOLEAN,
     stdout : {StdoutWith(ls) : ls \in LabelSets}, lines : RunCpFiles]

\* lines 380-473 of _run_xfoil_mode
AnalyzeRun(run) ==
    LET coefficients == extract_aerodynamic_coefficients(run.stdout)
        cp == ParseCp(run.lines)
    IN  IF run.conv THEN Raise("Exception", "convergence", ConvergenceMsg)
        ELSE IF ~run.cpFile THEN Raise("Exception", "nofile", NoFileMsg(run.viscous))
        ELSE IF "CL" \notin DOMAIN coefficients
             THEN Raise("Exception", "nocoeff", NoCoeffMsg)
        ELSE IF cp.cp_x = <<>> THEN Raise("Exception", "nopressure", NoPressureMsg)
        ELSE [ok |-> TRUE, kind |-> "success", type |-> "none", msg |-> <<>>,
              tag |-> FidelityTag(run.viscous), coefficients |-> coefficients,
              cp_x |-> cp.cp_x, cp_values |-> cp.cp_values]

InitRun ==
    /\ InitCommon
    /\ UniqueIds
    /\ NoClient
    /\ NoHealth
    /\ probe = 0
    /\ hits = [c \in Clients |-> 0]
    /\ payload = AnyPayload
    /\ arg \in Runs
    /\ result = <<>>

CheckRun ==
    /\ result = <<>>
    /\ result' = <<AnalyzeRun(arg)>>
    /\ UNCHANGED <<pc, attempt, sem, procs, dirs, probe, attemptLog, obsResp,
                   hits, payload, runId, cache, call, health, arg>>

SpecRun == InitRun /\ [][CheckRun]_vars

\* C22: a successful result of an attempt, viscous or inviscid, holds both CL
\* and CD in its coefficient mapping and at least one pressure row.
C22_SuccessHasCLCD ==
    (Len(result) = 1 /\ result[1].ok)
    => /\ {"CL", "CD"} \subseteq DOMAIN result[1].coefficients
       /\ Len(result[1].cp_x) >= 1

\* C23: a solver process is alive only while its own attempt waits for it: a
\* timed-out attempt's process is gone (killed) once the timeout is handled,
\* hence before the next attempt is launched, the gate slot is released or
\* the working directory is removed.
C23_TimedOutProcessKilled ==
    /\ \A p \in procs :
         /\ pc[p[1]] = "running"
         /\ attempt[p[1]] = p[2]
         /\ runId[p[1]] \in dirs
    /\ \A i \in 1..Len(attemptLog) :
         attemptLog[i].outcome = "timeout" => <<probe, i>> \notin procs

C23_Witness ==
    /\ Len(attemptLog) = 2
    /\ attemptLog[1].outcome = "timeout"
    /\ pc[probe] = "running"
    /\ <<probe, 2>> \in procs

(* ----------------- run ids that may coincide --------------------------- *)
\* str(uuid.uuid4())[:8] keeps 32 random bits: the draws of two requests are
\* independent, so they may be equal.  Here requests 1 and 2 draw the same id
\* or all draws differ.
InitDirs ==
    /\ InitCommon
    /\ NoCall
    /\ probe = 0
    /\ hits = [c \in Clients |-> 0]
    /\ payload = AnyPayload
    /\ NoClient
    /\ NoHealth
    /\ runId \in {[r \in Requests |-> r],
                  [r \in Requests |-> IF r = 2 THEN 1 ELSE r]}

SpecDirs == InitDirs /\ [][Next]_vars

\* the working directory of request r is in use
InFlight(r) == pc[r] \in {"created", "waiting", "launch", "running"}

\* C24: two requests in flight at the same time never have the same working
\* directory, so the directory of a request in flight exists: no other
\* request has removed it.
C24_DirectoriesDisjoint ==
    /\ \A r1, r2 \in Requests :
         (r1 # r2 /\ InFlight(r1) /\ InFlight(r2)) => runId[r1] # runId[r2]
    /\ \A r \in Requests : InFlight(r) => runId[r] \in dirs

(* --------------------------- the dashboard ----------------------------- *)
InitCache ==
    /\ InitCommon
    /\ NoCall
    /\ UniqueIds
    /\ NoClient
    /\ NoHealth
    /\ probe = 0
    /\ hits = [c \in Clients |-> 0]
    /\ payload = AnyPayload

NextCache ==
    \/ \E s \in Sessions, args \in CallArgs : StartAnalysis(s, args)
    \/ \E s \in Sessions, ans \in PostAnswers : PostAnswered(s, ans)
    \/ \E k \in DOMAIN cache : Expire(k)

SpecCache == InitCache /\ [][NextCache]_vars

\* session s starts a call in this step
Starts(s) ==
    /\ call[s].state # "posting"
    /\ call'[s] # call[s]

C26_OnlySuccessStored ==
    [][/\ \A k \in DOMAIN cache' :
            (k \notin DOMAIN cache \/ cache'[k] # cache[k])
            => \E s \in Sessions :
                  /\ call[s].state = "posting"
                  /\ call'[s].state = "returned"
                  /\ cache'[k].args = call[s].args
                  /\ cache'[k].value = call'[s].value
       /\ \A s \in Sessions :
            (call[s].state = "posting" /\ call'[s] # call[s]
                                       /\ call'[s].state # "returned")
            => cache' = cache
       /\ \A s \in Sessions :
            (Starts(s) /\ \A k \in DOMAIN cache : cache[k].args # call'[s].args)
            => call'[s].state = "posting"]_vars

\* a call failed for good after three 429 answers, nothing was stored, and
\* the same call made again by the other session is at the backend
C26_Witness ==
    /\ call["s1"].state = "raised"
    /\ call["s1"].msg = RateLimitedMsg
    /\ cache = <<>>
    /\ call["s2"].state = "posting"
    /\ call["s2"].args = call["s1"].args

(* ----------------- the backend with a health monitor ------------------- *)
\* The monitor has used all but one of its 20 requests of the minute; the
\* solver binary is installed or missing.
InitHealth ==
    /\ InitCommon
    /\ NoCall
    /\ UniqueIds
    /\ NoClient
    /\ probe = 0
    /\ hits = [c \in Clients |-> 0]
    /\ payload = AnyPayload
    /\ health \in [exists : BOOLEAN, hits : {HEALTH_LIMIT - 1}, answer : {NoAnswer}]

NextHealth == Next \/ Health

SpecHealth == InitHealth /\ [][NextHealth]_vars

\* C27 as stated: /health takes no gate slot, can be answered in every state
\* of the gate, and its answer tells whether the solver binary is there and
\* depends on nothing else.
C27_HealthOnlyBinary ==
    /\ [](ENABLED Health)
    /\ [][health' # health
          => /\ UNCHANGED <<sem, pc, attempt, procs, dirs>>
             /\ health'.answer.status = 200
             /\ health'.answer.body = "healthy" <=> health.exists]_vars

\* C27 amended: /health takes no gate slot and can be answered in every state
\* of the gate; the answer is 429 when the client has used up its 20 requests
\* of the minute, and otherwise 200 with a status that tells whether the
\* solver binary is there and depends on nothing else.
C27_HealthBinaryOrLimited ==
    /\ [](ENABLED Health)
    /\ [][health' # health
          => /\ UNCHANGED <<sem, pc, attempt, procs, dirs>>
             /\ IF health.hits >= 20
                THEN health'.answer.status = 429
                ELSE /\ health'.answer.status = 200
                     /\ health'.answer.body = "healthy" <=> health.exists
                     /\ health'.answer.body = "degraded" <=> ~health.exists]_vars

\* /health was answered 200 while the three slots were taken and a request
\* was waiting for one
C27_Witness ==
    /\ health.answer.status = 200
    /\ health.answer.busy
    /\ sem = 0
    /\ \E r \in Requests : pc[r] = "waiting"
    /\ Cardinality(procs) = 3

(* ------------- one recorded request, fairly scheduled ------------------ *)
\* Requests 1 and 2 are still to come, the others are over; request 1 is
\* recorded.
InitProbeLive ==
    /\ pc = [r \in Requests |-> IF r \in {1, 2} THEN "idle" ELSE "done"]
    /\ attempt = [r \in Requests |-> 0]
    /\ sem = GateCapacity
    /\ procs = {}
    /\ dirs = {}
    /\ probe = 1
    /\ attemptLog = <<>>
    /\ obsResp = NoResp
    /\ hits = [c \in Clients |-> 0]
    /\ payload = AnyPayload
    /\ NoCall
    /\ UniqueIds
    /\ NoClient
    /\ NoHealth

\* The gate is granted and the launch is made; a launched solver is not
\* assumed to exit, only the timeout of communicate() is assumed to expire.
FairnessTimer ==
    \A r \in Requests :
        /\ WF_vars(Acquire(r))
        /\ WF_vars(Launch(r) \/ LaunchError(r))
        /\ WF_vars(Timeout(r))

SpecProbeLive == InitProbeLive /\ [][Next]_vars /\ FairnessTimer

\* C28: once run_xfoil_sync has been entered it is left, and in one of two
\* ways only: a result with a fidelity tag (answered 200) or an exception
\* (answered 500); it does not stay waiting for the solver.
C28_StrategyTerminates ==
    /\ (attempt[probe] # 0) ~> (attempt[probe] = 0 /\ pc[probe] = "done")
    /\ [](((pc[probe] = "done") /\ (Len(attemptLog) > 0))
          => \/ /\ obsResp.status = 200
                /\ obsResp.tag \in {"viscous", "inviscid"}
                /\ attemptLog[Len(attemptLog)].outcome = "success"
             \/ /\ obsResp.status = 500
                /\ obsResp.tag = "none"
                /\ obsResp.detail # <<>>
                /\ attemptLog[Len(attemptLog)].outcome \in FailureKinds)

\* the strategy was left with an exception after the third attempt timed out
C28_Witness ==
    /\ pc[probe] = "done"
    /\ attempt[probe] = 0
    /\ Len(attemptLog) = 3
    /\ attemptLog[3].outcome = "timeout"
    /\ obsResp.status = 500

(* ------------- the command script: _run_xfoil_mode --------------------- *)
Command(cmd, name, num) == [cmd |-> cmd, name |-> name, num |-> num]

\* script_lines as built for one call; smooth_geometry is a parameter of the
\* call that the body never reads
Script(mode, reynolds, alpha) ==
    <<Command("LOAD", "airfoil.dat", 0), Command("PANE", "", 0),
      Command("OPER", "", 0)>>
    \o (IF mode.viscous
        THEN <<Command("VISC", "", reynolds), Command("ITER", "", 500),
               Command("ALFA", "", alpha)>>
        ELSE <<Command("ALFA", "", alpha)>>)
    \o <<Command("CPWR", "cp_output.txt", 0), Command("", "", 0),
         Command("QUIT", "", 0)>>

\* the accepted flow conditions the scripts are built for
FlowConditions ==
    [reynolds : {re \in ReynoldsVals : MIN_REYNOLDS <= re /\ re <= MAX_REYNOLDS}
                \cup {MIN_REYNOLDS + 1, MAX_REYNOLDS - 1},
     alpha : MIN_ALPHA..MAX_ALPHA]

InitScript ==
    /\ InitCommon
    /\ UniqueIds
    /\ NoClient
    /\ NoHealth
    /\ probe = 0
    /\ hits = [c \in Clients |-> 0]
    /\ payload = AnyPayload
    /\ arg \in FlowConditions
    /\ result = <<>>

\* the next call of run_xfoil_sync writes its script
WriteScript ==
    /\ Len(result) < 3
    /\ result' = Append(result, Script(ModeOf(Len(result) + 1),
                                       arg.reynolds, arg.alpha))
    /\ UNCHANGED <<pc, attempt, sem, procs, dirs, probe, attemptLog, obsResp,
                   hits, payload, runId, cache, call, health, arg>>

SpecScript == InitScript /\ [][WriteScript]_vars

\* C29: the script written for the second attempt (smooth_geometry=True)
\* is not the script written for the first attempt.
C29_SecondScriptDiffers ==
    Len(result) >= 2 => result[2] # result[1]

(* ------------- cp_output.txt in the working directory ------------------ *)
\* One request's strategy and the cp_output.txt of its working directory.
\* result.cpFile is the attempt whose solver process wrote the file that is
\* there now (0: no file), result.parsed the attempt whose file the returned
\* pressure data was read from (0: nothing returned).

\* bug: the files of the previous attempt are left in place
CleanUpSkipped(cpFile) == cpFile

\* "Clean up old files": os.remove(cp_out_path) if it exists
CleanUp(cpFile) == 0

\* the file after a solver process of attempt k has run: CPWR writes it anew
Written(cpFile, k, wrote) == IF wrote THEN k ELSE cpFile

InitFiles ==
    /\ InitCommon
    /\ UniqueIds
    /\ NoClient
    /\ NoHealth
    /\ probe = 0
    /\ hits = [c \in Clients |-> 0]
    /\ payload = AnyPayload
    /\ arg = <<>>
    /\ result = [k |-> 1, phase |-> "clean", cpFile |-> 0, parsed |-> 0,
                 log |-> <<>>]

\* what run_xfoil_sync does with the outcome res of attempt result.k
AfterAttempt(res, cpFile, wrote) ==
    LET log == Append(result.log, [wrote |-> wrote, kind |-> res.kind]) IN
    IF res.ok
    THEN [result EXCEPT !.phase = "returned", !.cpFile = cpFile,
                        !.parsed = cpFile, !.log = log]
    ELSE IF Escalates(result.k, res)
    THEN [result EXCEPT !.k = NextAttempt(result.k), !.phase = "clean",
                        !.cpFile = cpFile, !.log = log]
    ELSE [result EXCEPT !.phase = "raised", !.cpFile = cpFile, !.log = log]

FilesUnchanged ==
    UNCHANGED <<pc, attempt, sem, procs, dirs, probe, attemptLog, obsResp,
                hits, payload, runId, cache, call, health, arg>>

\* the old files are removed, the script is written, the solver is started
CleanAndLaunch ==
    /\ result.phase = "clean"
    /\ result' = [result EXCEPT !.phase = "running",
                                !.cpFile = CleanUp(result.cpFile)]
    /\ FilesUnchanged

\* the old files are removed, subprocess.Popen raises
CleanAndLaunchError ==
    /\ result.phase = "clean"
    /\ result' = AfterAttempt(LaunchFailed, CleanUp(result.cpFile), FALSE)
    /\ FilesUnchanged

\* communicate() returns; the process wrote cp_output.txt or did not
SolverEnds ==
    /\ result.phase = "running"
    /\ \E wrote \in BOOLEAN, conv \in BOOLEAN, hasCL \in BOOLEAN,
          rows \in 0..MaxRows :
         LET cpFile == Written(result.cpFile, result.k, wrote)
             out == [conv |-> conv, cpFile |-> cpFile # 0, hasCL |-> hasCL,
                     rows |-> rows]
         IN result' = AfterAttempt(Analyze(ModeOf(result.k), out), cpFile, wrote)
    /\ FilesUnchanged

\* communicate() raises TimeoutExpired; the process is killed, having
\* written cp_output.txt or not
SolverTimesOut ==
    /\ result.phase = "running"
    /\ Expires(ModeOf(result.k))
    /\ \E wrote \in BOOLEAN :
         result' = AfterAttempt(TimedOut(ModeOf(result.k)),
                                Written(result.cpFile, result.k, wrote), wrote)
    /\ FilesUnchanged

NextFiles ==
    \/ CleanAndLaunch
    \/ CleanAndLaunchError
    \/ SolverEnds
    \/ SolverTimesOut

SpecFiles == InitFiles /\ [][NextFiles]_vars

\* C30: the pressure data returned by attempt k was read from a
\* cp_output.txt that the solver process of attempt k wrote, and a solver
\* process is started in a directory without a cp_output.txt.
C30_OwnPressureFile ==
    /\ result.phase = "returned"
           => /\ result.parsed = result.k
              /\ result.log[Len(result.log)].wrote
    /\ result.phase = "running" => result.cpFile = 0

\* the second attempt returned its data after the first one had left a file
C30_Witness ==
    /\ result.phase = "returned"
    /\ result.k = 2
    /\ result.log[1].wrote
    /\ result.parsed = 2

(* ------------- conservation of the gate's permits ---------------------- *)
\* the requests inside "async with xfoil_semaphore"
InGate == {r \in Requests : pc[r] \in {"launch", "running"}}

\* C31: free permits plus requests inside the gated section are 3 in every
\* state; the permit is given back on every way out of the solver run, so
\* when every request is over all 3 permits are free.
C31_PermitsConserved ==
    /\ sem + Cardinality(InGate) = 3
    /\ (\A r \in Requests : pc[r] = "done") => sem = 3

\* every request is over, and the recorded one left the gate with an
\* exhausted strategy
C31_Witness ==
    /\ \A r \in Requests : pc[r] = "done"
    /\ sem = 3
    /\ Len(attemptLog) = 3
    /\ obsResp.status = 500

(* ------------- the retry loop of run_xfoil_analysis -------------------- *)
\* C32: a call sends at most 3 POSTs, every answer makes it return, raise or
\* send the next POST, and it sends the next POST only after a 429 answer or
\* a request timeout.
C32_RetryOnlyOn429OrTimeout ==
    [][\A s \in Sessions :
         (call[s].state = "posting" /\ call'[s] # call[s])
         => /\ call[s].k < 3
            /\ call'[s].state \in {"returned", "raised", "posting"}
            /\ call'[s].state = "posting"
                  => /\ call'[s].k = call[s].k + 1
                     /\ call'[s].last \in {"429", "timeout"}]_vars

\* C36: the raise of "Max retries exceeded" after the loop is never reached:
\* every pass returns, raises or goes on to a later pass, and the third pass
\* does not go on.
C36_MaxRetriesUnreachable ==
    /\ [](\A s \in Sessions : call[s].msg # MaxRetriesMsg /\ call[s].k < 3)
    /\ [][\A s \in Sessions :
            (call[s].state = "posting" /\ call'[s] # call[s])
            => /\ call'[s].state \in {"returned", "raised", "posting"}
               /\ call'[s].state = "posting" => call'[s].k = call[s].k + 1
               /\ call[s].k = 2 => call'[s].state \in {"returned", "raised"}]_vars

\* the third pass ended the call with the error of a request timeout
C36_Witness ==
    \E s \in Sessions :
        /\ call[s].state = "raised"
        /\ call[s].k = 2
        /\ call[s].last = "timeout"
        /\ call[s].msg = ClientTimeoutMsg

(* ------------- one POST and the strategy it started, in time ----------- *)
\* result.now is the time in seconds since the dashboard sent the POST of
\* pass arg of its retry loop; the backend starts the first attempt at once
\* (no wait for the gate), attempt result.k was started at result.started.
\* result.first is how the first attempt ended.

\* requests.post(..., timeout=90)
POST_TIMEOUT == 90

InitTimed ==
    /\ InitCommon
    /\ UniqueIds
    /\ NoClient
    /\ NoHealth
    /\ probe = 0
    /\ hits = [c \in Clients |-> 0]
    /\ payload = AnyPayload
    /\ arg \in 0..(max_retries - 1)
    /\ result = [now |-> 0, k |-> 1, started |-> 0, phase |-> "running",
                 client |-> "waiting", first |-> "none"]

TimedUnchanged ==
    UNCHANGED <<pc, attempt, sem, procs, dirs, probe, attemptLog, obsResp,
                hits, payload, runId, cache, call, health, arg>>

\* the backend and the waiting dashboard after attempt result.k ended with res
AfterTimed(res) ==
    LET first == IF result.k = 1 THEN res.kind ELSE result.first
        answer == IF res.ok THEN "200" ELSE "500"
        got == IF result.client # "waiting" THEN result.client
               ELSE IF LoopStep(arg, answer).do = "return" THEN "received"
               ELSE "error"
    IN
    IF res.ok
    THEN [result EXCEPT !.phase = "returned", !.client = got, !.first = first]
    ELSE IF Escalates(result.k, res)
    THEN [result EXCEPT !.k = NextAttempt(result.k), !.started = result.now,
                        !.first = first]
    ELSE [result EXCEPT !.phase = "raised", !.client = got, !.first = first]

\* ten seconds pass; no timeout that is due is passed over
Tick ==
    /\ result.phase = "running"
    /\ result.now < result.started + ModeOf(result.k).timeout
    /\ result.client = "waiting" => result.now < POST_TIMEOUT
    /\ result' = [result EXCEPT !.now = @ + 10]
    /\ TimedUnchanged

\* the solver process exits, some time after its start
SolverEndsTimed ==
    /\ result.phase = "running"
    /\ result.now > result.started
    /\ \E out \in SolverOutputs :
         result' = AfterTimed(Analyze(ModeOf(result.k), out))
    /\ TimedUnchanged

\* communicate(timeout=timeout) raises TimeoutExpired
AttemptTimesOut ==
    /\ result.phase = "running"
    /\ Expires(ModeOf(result.k))
    /\ result.now >= result.started + ModeOf(result.k).timeout
    /\ result' = AfterTimed(TimedOut(ModeOf(result.k)))
    /\ TimedUnchanged

\* requests.post raises Timeout: the loop sends the POST again or gives up
ClientTimesOut ==
    /\ result.client = "waiting"
    /\ result.now >= POST_TIMEOUT
    /\ result' = [result EXCEPT !.client =
                     IF LoopStep(arg, "timeout").do = "again"
                     THEN "resubmitted" ELSE "raised"]
    /\ TimedUnchanged

NextTimed ==
    \/ Tick
    \/ SolverEndsTimed
    \/ AttemptTimesOut
    \/ ClientTimesOut

SpecTimed == InitTimed /\ [][NextTimed]_vars

\* C33: when the first attempt of the backend timed out and a later attempt
\* succeeded, the POST that started the run was still waiting and received
\* the result; the dashboard has not timed out and sent the analysis again.
C33_ClientOutwaitsBackend ==
    (result.phase = "returned" /\ result.first = "timeout")
        => result.client = "received"

(* ------------- db_utils: get_db_connection ----------------------------- *)
\* result.count is stats.count as committed, result.pending the increment
\* made in the open transaction, result.calls the calls made on the
\* connection in this use of the context manager ("commit!" and "rollback!"
\* are calls that raised), result.body how the with-body ended, result.exc
\* the exception in flight and result.raised what left the context manager.
NoUse ==
    [op |-> "none", phase |-> "idle", conn |-> FALSE, pending |-> 0,
     calls |-> <<>>, body |-> "none", exc |-> "none", raised |-> "none",
     ret |-> "none"]

InitDb ==
    /\ InitCommon
    /\ UniqueIds
    /\ NoClient
    /\ NoHealth
    /\ probe = 0
    /\ hits = [c \in Clients |-> 0]
    /\ payload = AnyPayload
    /\ arg = <<>>
    /\ result = [count |-> 0, use |-> NoUse]

DbUnchanged ==
    UNCHANGED <<pc, attempt, sem, procs, dirs, probe, attemptLog, obsResp,
                hits, payload, runId, cache, call, health, arg>>

\* bug: a bare "except:" that catches every exception
CatchesAll(exc) == exc # "none"

\* "except Exception as e": KeyboardInterrupt, SystemExit and the like pass by
Catches(exc) == exc = "Exception"

\* increment_analysis_count() or get_analysis_count() enters
\* "with get_db_connection() as conn"
DbEnter(op) ==
    /\ result.use.phase = "idle"
    /\ result.count < MaxCount
    /\ result' = [result EXCEPT !.use = [NoUse EXCEPT !.op = op,
                                                      !.phase = "connect"]]
    /\ DbUnchanged

\* conn = psycopg2.connect(DB_URL)
DbConnect ==
    /\ result.use.phase = "connect"
    /\ \/ result' = [result EXCEPT !.use.conn = TRUE, !.use.phase = "body"]
       \/ result' = [result EXCEPT !.use.exc = "Exception",
                                   !.use.phase = "except"]
    /\ DbUnchanged

\* the with-body runs after the yield: it ends, having made its UPDATE or
\* its SELECT, or it raises before or after its statement
DbBody ==
    /\ result.use.phase = "body"
    /\ \E made \in {0, IF result.use.op = "increment" THEN 1 ELSE 0},
          exc \in {"none", "Exception", "BaseException"} :
         /\ exc = "none" => made = (IF result.use.op = "increment" THEN 1 ELSE 0)
         /\ result' = [result EXCEPT
                          !.use.pending = made,
                          !.use.body = IF exc = "none" THEN "ok" ELSE exc,
                          !.use.exc = exc,
                          !.use.ret = IF exc # "none" THEN "none"
                                      ELSE IF result.use.op = "increment"
                                      THEN result.count + 1 ELSE result.count,
                          !.use.phase = IF exc = "none" THEN "commit"
                                        ELSE "except"]
    /\ DbUnchanged

\* conn.commit()
DbCommit ==
    /\ result.use.phase = "commit"
    /\ \/ result' = [result EXCEPT
                        !.count = @ + result.use.pending,
                        !.use.pending = 0,
                        !.use.calls = Append(@, "commit"),
                        !.use.phase = "finally"]
       \/ result' = [result EXCEPT
                        !.use.calls = Append(@, "commit!"),
                        !.use.exc = "Exception",
                        !.use.phase = "except"]
    /\ DbUnchanged

\* the except clause: conn.rollback() if a connection was made, then raise e
DbExcept ==
    /\ result.use.phase = "except"
    /\ IF Catches(result.use.exc) /\ result.use.conn
       THEN \/ result' = [result EXCEPT
                             !.use.pending = 0,
                             !.use.calls = Append(@, "rollback"),
                             !.use.phase = "finally"]
            \/ result' = [result EXCEPT
                             !.use.calls = Append(@, "rollback!"),
                             !.use.phase = "finally"]
       ELSE result' = [result EXCEPT !.use.phase = "finally"]
    /\ DbUnchanged

\* the finally clause: conn.close() if a connection was made; the caller's
\* "except Exception" turns an Exception into the return value None
DbFinally ==
    /\ result.use.phase = "finally"
    /\ result' = [result EXCEPT
                     !.use.pending = 0,
                     !.use.calls = IF result.use.conn THEN Append(@, "close")
                                   ELSE @,
                     !.use.conn = FALSE,
                     !.use.raised = result.use.exc,
                     !.use.ret = IF result.use.exc = "none" THEN @ ELSE "none",
                     !.use.phase = "idle"]
    /\ DbUnchanged

NextDb ==
    \/ \E op \in {"increment", "get"} : DbEnter(op)
    \/ DbConnect
    \/ DbBody
    \/ DbCommit
    \/ DbExcept
    \/ DbFinally

SpecDb == InitDb /\ [][NextDb]_vars

\* the calls of a finished use
Called(c) == \E i \in 1..Len(result.use.calls) : result.use.calls[i] = c
UseOver == result.use.phase = "idle" /\ result.use.op # "none"
Opened == result.use.body # "none"

\* C34 as stated: commit is called exactly when the body ended without an
\* exception; when the body or the commit raised, rollback is called and an
\* exception leaves the manager; an opened connection is closed on every
\* path; a commit that was made is never followed by a rollback.
C34_CommitOrRollback ==
    UseOver =>
        /\ (Called("commit") \/ Called("commit!")) <=> result.use.body = "ok"
        /\ (result.use.body \in {"Exception", "BaseException"} \/ Called("commit!"))
               => /\ Called("rollback") \/ Called("rollback!")
                  /\ result.use.raised # "none"
        /\ Opened <=> Called("close")
        /\ ~(Called("commit") /\ (Called("rollback") \/ Called("rollback!")))

\* C34 amended: as stated, for a body that raises an Exception; when the body
\* raises an exception that is not an Exception (KeyboardInterrupt,
\* SystemExit) neither commit nor rollback is called, the connection is
\* closed and the exception leaves the manager.
C34_CommitOrRollbackOnException ==
    UseOver =>
        /\ (Called("commit") \/ Called("commit!")) <=> result.use.body = "ok"
        /\ (result.use.body = "Exception" \/ Called("commit!"))
               => /\ Called("rollback") \/ Called("rollback!")
                  /\ result.use.raised # "none"
        /\ result.use.body = "BaseException"
               => /\ ~Called("rollback") /\ ~Called("rollback!")
                  /\ result.use.raised = "BaseException"
        /\ Opened <=> Called("close")
        /\ Opened => result.use.calls[Len(result.use.calls)] = "close"
        /\ ~(Called("commit") /\ (Called("rollback") \/ Called("rollback!")))
        /\ ~result.use.conn

\* a use whose commit raised: rolled back, closed, nothing counted
C34_Witness ==
    /\ UseOver
    /\ result.use.op = "increment"
    /\ result.use.calls = <<"commit!", "rollback", "close">>
    /\ result.use.raised = "Exception"
    /\ result.count = 1

(* ------------- the dashboard's input widgets --------------------------- *)
\* st.number_input("Reynolds Number", min_value=1_000, max_value=10_000_000)
WIDGET_MIN_REYNOLDS == 1000
WIDGET_MAX_REYNOLDS == 10000000
\* st.slider("Angle (degrees)", min_value=-20.0, max_value=20.0)
WIDGET_MIN_ALPHA == -20
WIDGET_MAX_ALPHA == 20

\* what the dashboard can send: the ends of the widgets' ranges and the
\* values next to the ends of the backend's ranges that the widgets allow; a
\* file from st.file_uploader(type="dat")
WidgetPayloads ==
    [fixed : {TRUE},
     reynolds : {re \in {WIDGET_MIN_REYNOLDS, MIN_REYNOLDS - 1, MIN_REYNOLDS,
                         MAX_REYNOLDS, WIDGET_MAX_REYNOLDS} :
                     WIDGET_MIN_REYNOLDS <= re /\ re <= WIDGET_MAX_REYNOLDS},
     alpha : {a \in {WIDGET_MIN_ALPHA, MIN_ALPHA - 1, MIN_ALPHA, MAX_ALPHA,
                     WIDGET_MAX_ALPHA} :
                  WIDGET_MIN_ALPHA <= a /\ a <= WIDGET_MAX_ALPHA},
     filename : {<<"naca0012", ".dat">>},
     size : {MAX_FILE_SIZE},
     file : Files]

InitWidget ==
    /\ UniqueIds
    /\ NoClient
    /\ NoHealth
    /\ pc = [r \in Requests |-> IF r = 1 THEN "idle" ELSE "done"]
    /\ attempt = [r \in Requests |-> 0]
    /\ sem = GateCapacity
    /\ procs = {}
    /\ dirs = {}
    /\ probe = 1
    /\ attemptLog = <<>>
    /\ obsResp = NoResp
    /\ hits = [c \in Clients |-> 0]
    /\ payload \in WidgetPayloads
    /\ arg = <<>>
    /\ result = <<>>

SpecWidget == InitWidget /\ [][Next]_vars

\* C35: a request made with a Reynolds number and an angle that the widgets
\* allow is not answered 400 for its parameters.
C35_WidgetValuesAccepted ==
    ~(obsResp.status = 400 /\ obsResp.detail = <<"bad", "parameters">>)
====
